---------------------------- MODULE Spec2Model ----------------------------
(***************************************************************************)
(* A model of the two scripts of the repository.                           *)
(*                                                                         *)
(*   docs/afthumbs.py           scans a binary file for the 8-byte PNG     *)
(*                              signature and writes pngs/<offset>.png for *)
(*                              every occurrence (specification Spec, and  *)
(*                              FairSpec for termination).                 *)
(*   .agent/scripts/rename_plans.py                                        *)
(*                              renames the .md entries of a directory     *)
(*                              (specification SpecRename).                *)
(*                                                                         *)
(* A file is a sequence of bytes (0..255); the file system is the function *)
(* `files` from path to contents together with the kind of the entry       *)
(* `pngs` of the working directory.  One action is one statement block of  *)
(* the script: the argument handling, the open, one iteration of the scan  *)
(* loop, the end of the script.                                            *)
(***************************************************************************)
EXTENDS Integers, Sequences, FiniteSets, TLC

VARIABLES
    \* ---- afthumbs.py: the process
    pc,           \* "start" | "prompt" | "open" | "scan" | "done" | "exit" | "fatal"
    argv,         \* sys.argv
    num_bytes,    \* the file size found by seek(0, 2) / tell()
    i,            \* the loop variable of `for i in range(num_bytes)`
    count,        \* the match counter
    binary_file,  \* the buffered reader: [start, buf, pos], buf the bytes it holds of the
                  \* file from offset start on, pos the offset of its next read
    stdout,       \* the lines printed, in order
    exitCode,     \* -1 while running, then the exit status
    error,        \* "" or the exception that ended the process
    \* ---- afthumbs.py: the environment
    files,        \* path -> bytes, the regular files that exist
    pngsKind,     \* "absent" | "dir" | "file": what the name pngs is in the working directory
    cwdWritable,  \* whether a directory can be created in the working directory
    bufferSize,   \* the size of binary_file's buffer
    \* ---- history of the runs (read by the properties only)
    run,          \* 1 for the first invocation, 2 for the second, ...
    argv0,        \* the command line of the invocation
    wlog,         \* the writes of this run: <<[off, size, data, path], ...>>
    madeDir,      \* whether this run created pngs
    before,       \* files when this run started
    prev,         \* the end of the previous run
    \* ---- rename_plans.py
    rpc,          \* "idle" | "list" | "loop" | "end"
    entries,      \* name -> [birth, mtime, id]: the entries of the directory
    todo,         \* the names os.listdir returned that the loop has not visited
    hasBirthtime, \* whether os.stat results carry st_birthtime
    rlog,         \* the iterations of every pass: <<[pass, old, new, renamed], ...>>
    rpass         \* the number of the pass

scanVars == <<pc, argv, num_bytes, i, count, binary_file, stdout, exitCode, error,
              files, pngsKind, cwdWritable, bufferSize, run, argv0, wlog, madeDir,
              before, prev>>
renameVars == <<rpc, entries, todo, hasBirthtime, rlog, rpass>>
vars == <<scanVars, renameVars>>

(***************************************************************************)
(* Bounds of the model.                                                    *)
(***************************************************************************)
\* Padding before the first signature and after the last one: 0..MaxPad
\* zero bytes; also the offsets k of the input paths pngs/<k>.png.
MaxPad == 1
\* Declared lengths 0..MaxLen and payloads of 0..MaxLen bytes.
MaxLen == 5
\* Invocations of the script in a row.
MaxRuns == 2
\* A buffer smaller than the files of the model, for the runs in which the
\* input does not fit binary_file's buffer.
SmallBuffer == 8

Min(a, b) == IF a < b THEN a ELSE b

(***************************************************************************)
(* Bytes and conversions.                                                  *)
(***************************************************************************)
PNG_MAGIC == <<137, 80, 78, 71, 13, 10, 26, 10>>

\* read(2) of k bytes at offset pos of a file holding `data`: at most k
\* bytes, fewer at the end of the file, none at or past it.
RawRead(data, pos, k) ==
    IF pos >= Len(data) \/ k <= 0 THEN <<>>
    ELSE SubSeq(data, pos + 1, Min(pos + k, Len(data)))

\* open(path, "rb") with the default buffering: io.DEFAULT_BUFFER_SIZE.
DEFAULT_BUFFER_SIZE == 8192

\* binary_file before it is opened.
NoFile == [start |-> 0, buf |-> <<>>, pos |-> 0]

\* The offset after the last byte the buffer holds.
BufEnd(f) == f.start + Len(f.buf)

\* binary_file.seek(0, 2): to the end of the file, the buffer dropped.
SeekEnd(data) == [start |-> Len(data), buf |-> <<>>, pos |-> Len(data)]

\* binary_file.seek(t): within the buffer when it holds unread bytes and t
\* lies in it, else the buffer is dropped.
Seek(f, t) ==
    IF BufEnd(f) - f.pos > 0 /\ f.start <= t /\ t <= BufEnd(f)
    THEN [f EXCEPT !.pos = t]
    ELSE [start |-> t, buf |-> <<>>, pos |-> t]

\* binary_file.read(k) with the file holding `data` now and a buffer of B
\* bytes: [file |-> the reader after the read, out |-> the bytes returned].
\* The unread bytes of the buffer come first; what is missing is read from
\* the file, whole blocks of B bytes directly and the rest through a refill
\* of the buffer.
BufferedRead(f, data, k, B) ==
    LET avail == BufEnd(f) - f.pos
        at == f.pos - f.start
    IN  IF k <= avail
        THEN [file |-> [f EXCEPT !.pos = f.pos + k], out |-> SubSeq(f.buf, at + 1, at + k)]
        ELSE LET head == SubSeq(f.buf, at + 1, Len(f.buf))
                 remaining == k - avail
                 raw == BufEnd(f)
                 blocks == remaining - (remaining % B)
                 direct == RawRead(data, raw, blocks)
                 next == raw + Len(direct)
             IN  IF Len(direct) < blocks \/ remaining = blocks
                 THEN [file |-> [start |-> next, buf |-> <<>>, pos |-> next],
                       out |-> head \o direct]
                 ELSE LET window == RawRead(data, next, B)
                          taken == SubSeq(window, 1, Min(remaining - blocks, Len(window)))
                      IN  [file |-> [start |-> next, buf |-> window,
                                     pos |-> next + Len(taken)],
                           out |-> head \o direct \o taken]

\* int.from_bytes(bs, byteorder='little', signed=False); 0 for no bytes.
RECURSIVE FromBytesLE(_)
FromBytesLE(bs) ==
    IF bs = <<>> THEN 0 ELSE Head(bs) + 256 * FromBytesLE(Tail(bs))

Digits == <<"0", "1", "2", "3", "4", "5", "6", "7", "8", "9">>

\* str(n) for n >= 0.
RECURSIVE Str(_)
Str(n) == IF n < 10 THEN Digits[n + 1]
          ELSE Str(n \div 10) \o Digits[(n % 10) + 1]

\* "pngs/" + str(i) + ".png"
OutPath(off) == "pngs/" \o Str(off) \o ".png"

\* eight_bytes == b"\x89\x50\x4e\x47\x0d\x0a\x1a\x0a"
IsSignature(eight_bytes) == eight_bytes = PNG_MAGIC

\* A variant of ExtractLength: the declared length counted from the end of
\* the length field.
ExtractLength_PastLengthField(png_size) == png_size + 12

\* "Read the size of image plus the signature": png_size + 8
ExtractLength(png_size) == png_size + 8

\* A variant of WriteFile: the file is opened for appending ("ab").
WriteFile_Append(fs, path, data) ==
    [p \in DOMAIN fs \cup {path} |->
        IF p = path THEN (IF path \in DOMAIN fs THEN fs[path] ELSE <<>>) \o data
        ELSE fs[p]]

\* open(path, "wb") + write(data): the file is created or truncated.
WriteFile(fs, path, data) ==
    [p \in DOMAIN fs \cup {path} |-> IF p = path THEN data ELSE fs[p]]

\* os.mkdir('pngs') raises OSError: "EEXIST" when the name exists (whatever it
\* is), "EACCES" when it cannot be created, "" when it is created.
MkdirErrno(kind, writable) ==
    IF kind # "absent" THEN "EEXIST"
    ELSE IF ~writable THEN "EACCES" ELSE ""

\* A variant of MkdirRaises: every OSError of os.mkdir is raised again.
MkdirRaises_Any(errno) == errno # ""

\* `if e.errno != errno.EEXIST: raise`
MkdirRaises(errno) == errno # "" /\ errno # "EEXIST"

(***************************************************************************)
(* The inputs.                                                             *)
(***************************************************************************)
Zeros(k) == [j \in 1..k |-> 0]
Payload(k) == [j \in 1..k |-> 100 + j]
\* n as 4 bytes, least significant first.
ToBytesLE(n) == [j \in 1..4 |-> (n \div (256 ^ (j - 1))) % 256]
\* A declared length past every file of the model.
BigLen == 256

NearMagic == {[PNG_MAGIC EXCEPT ![k] = 0] : k \in 1..8}

\* What follows the first signature: a length field encoding n with n bytes
\* of payload; the longest with one byte fewer; a length past the end of the
\* file; no length field; one byte of it.
Chunks ==
    {ToBytesLE(n) \o Payload(n) : n \in 0..MaxLen}
        \cup {ToBytesLE(MaxLen) \o Payload(MaxLen - 1)}
        \cup {ToBytesLE(BigLen) \o Payload(1), <<>>, <<2>>}

\* padding + signature + chunk + (a second signature) + (a byte of padding)
MatchFiles ==
    {Zeros(p) \o PNG_MAGIC \o chunk \o second \o trailing :
        p \in 0..MaxPad, chunk \in Chunks, second \in {<<>>, PNG_MAGIC},
        trailing \in {<<>>, <<0>>}}
\* no signature at all, the empty file among them
PlainFiles == {Zeros(p) \o Payload(q) : p \in 0..MaxPad, q \in 0..MaxLen}
\* a window that differs from the signature in one byte
NearFiles == {Zeros(p) \o nm \o ToBytesLE(0) : p \in 0..MaxPad, nm \in NearMagic}
\* The model checker's integers are 32-bit signed, the script's are unbounded:
\* the inputs keep every declared length below 2^31 (BigLen stands for the
\* lengths that reach past the end of the file).
Decodable(data) ==
    \A off \in 0..(Len(data) - 1) :
        IsSignature(RawRead(data, off, 8)) /\ Len(RawRead(data, off + 8, 4)) = 4
            => RawRead(data, off + 8, 4)[4] < 128
Contents == {data \in MatchFiles \cup PlainFiles \cup NearFiles : Decodable(data)}

InputPaths == {"in.bin"} \cup {OutPath(k) : k \in 0..MaxPad}

NoPrev == [pc |-> "none", files |-> <<>>, pngsKind |-> "absent", path |-> "", input |-> <<>>]

Init ==
    /\ pc = "start"
    /\ \E path \in InputPaths, data \in Contents :
         /\ files = [p \in {path} |-> data]
         /\ \/ path = "in.bin" /\ pngsKind \in {"absent", "dir", "file"}
            \/ path # "in.bin" /\ pngsKind = "dir"
    /\ cwdWritable \in (IF pngsKind = "absent" THEN BOOLEAN ELSE {TRUE})
    \* The size of the buffer shows only in a run that writes the file it reads.
    /\ bufferSize \in (IF "in.bin" \in DOMAIN files THEN {DEFAULT_BUFFER_SIZE}
                       ELSE {SmallBuffer, DEFAULT_BUFFER_SIZE})
    /\ argv \in {<<"afthumbs.py">>} \cup {<<"afthumbs.py", p>> : p \in DOMAIN files}
    /\ argv0 = argv
    /\ num_bytes = 0 /\ i = 0 /\ count = 0 /\ binary_file = NoFile
    /\ stdout = <<>> /\ exitCode = -1 /\ error = ""
    /\ run = 1 /\ wlog = <<>> /\ madeDir = FALSE /\ before = files /\ prev = NoPrev
    /\ rpc = "idle" /\ entries = <<>> /\ todo = {} /\ hasBirthtime = TRUE
    /\ rlog = <<>> /\ rpass = 0

(***************************************************************************)
(* afthumbs.py, lines 17-25: the file name.                                *)
(***************************************************************************)
\* if len(sys.argv) != 1: print("Selecting file..." + sys.argv[1])
UseArgument ==
    /\ pc = "start" /\ Len(argv) # 1
    /\ stdout' = Append(stdout, "Selecting file..." \o argv[2])
    /\ pc' = "open"
    /\ UNCHANGED <<argv, num_bytes, i, count, binary_file, exitCode, error, files,
                   pngsKind, cwdWritable, bufferSize, run, argv0, wlog, madeDir, before, prev, renameVars>>

\* else: filename = input(...): the prompt is shown and the script waits.
Prompt ==
    /\ pc = "start" /\ Len(argv) = 1
    /\ stdout' = Append(stdout, "Enter a Affinity filename to scan or press ENTER to skip: ")
    /\ pc' = "prompt"
    /\ UNCHANGED <<argv, num_bytes, i, count, binary_file, exitCode, error, files,
                   pngsKind, cwdWritable, bufferSize, run, argv0, wlog, madeDir, before, prev, renameVars>>

\* A variant of PromptEmpty: the empty response is taken as the file name.
PromptEmpty_Continues ==
    /\ pc = "prompt"
    /\ argv' = Append(argv, "")
    /\ stdout' = Append(stdout, "Selecting file... ")
    /\ pc' = "open"
    /\ UNCHANGED <<num_bytes, i, count, binary_file, exitCode, error, files,
                   pngsKind, cwdWritable, bufferSize, run, argv0, wlog, madeDir, before, prev, renameVars>>

\* if filename == '': sys.exit("No Args or filename given, exiting!")
PromptEmpty ==
    /\ pc = "prompt"
    /\ pc' = "exit"
    /\ exitCode' = 1
    /\ error' = "No Args or filename given, exiting!"
    /\ UNCHANGED <<argv, num_bytes, i, count, binary_file, stdout, files,
                   pngsKind, cwdWritable, bufferSize, run, argv0, wlog, madeDir, before, prev, renameVars>>

\* else: sys.argv.append(filename); print("Selecting file... " + sys.argv[1])
PromptName ==
    /\ pc = "prompt"
    /\ \E filename \in InputPaths :
         /\ argv' = Append(argv, filename)
         /\ stdout' = Append(stdout, "Selecting file... " \o filename)
    /\ pc' = "open"
    /\ UNCHANGED <<num_bytes, i, count, binary_file, exitCode, error, files,
                   pngsKind, cwdWritable, bufferSize, run, argv0, wlog, madeDir, before, prev, renameVars>>

(***************************************************************************)
(* afthumbs.py, lines 27-33: open, size, count = 0.                        *)
(***************************************************************************)
OpenInput ==
    /\ pc = "open"
    /\ IF argv[2] \in DOMAIN files
       THEN /\ binary_file' = SeekEnd(files[argv[2]])
            /\ num_bytes' = Len(files[argv[2]])
            /\ count' = 0
            /\ i' = 0
            /\ stdout' = stdout \o <<"Opening file: " \o argv[2],
                                    "File size: " \o Str(Len(files[argv[2]])) \o "B",
                                    "Try to find PNG signatures">>
            /\ pc' = "scan"
            /\ UNCHANGED <<exitCode, error>>
       ELSE /\ pc' = "fatal"
            /\ exitCode' = 1
            /\ error' = "FileNotFoundError"
            /\ UNCHANGED <<binary_file, num_bytes, count, i, stdout>>
    /\ UNCHANGED <<argv, files, pngsKind, cwdWritable, bufferSize, run, argv0, wlog, madeDir,
                   before, prev, renameVars>>

(***************************************************************************)
(* afthumbs.py, lines 34-57: one iteration of the scan loop.  The reads go *)
(* through binary_file's buffer, over the input file as it is now: the     *)
(* iteration that wrote pngs/<i>.png may have written the input file.      *)
(***************************************************************************)
\* binary_file.seek(i); eight_bytes = binary_file.read(8)
ReadEight == BufferedRead(Seek(binary_file, i), files[argv[2]], 8, bufferSize)

\* png_size_bytes = binary_file.read(4), after the read of eight_bytes
ReadSize(eight_bytes) == BufferedRead(eight_bytes.file, files[argv[2]], 4, bufferSize)

\* binary_file.seek(i); png_data = binary_file.read(png_size + 8), after the
\* read of png_size_bytes
ReadData(png_size_bytes) ==
    BufferedRead(Seek(png_size_bytes.file, i), files[argv[2]],
                 ExtractLength(FromBytesLE(png_size_bytes.out)), bufferSize)

\* eight_bytes != signature: the next offset.
ScanMismatch ==
    /\ pc = "scan" /\ i < num_bytes
    /\ \E eight_bytes \in {ReadEight} :
         /\ ~IsSignature(eight_bytes.out)
         /\ binary_file' = eight_bytes.file
    /\ i' = i + 1
    /\ UNCHANGED <<pc, argv, num_bytes, count, stdout, exitCode, error, files,
                   pngsKind, cwdWritable, bufferSize, run, argv0, wlog, madeDir,
                   before, prev, renameVars>>

\* The lines printed by an iteration that found the signature, up to the mkdir.
FoundLines(n, off) ==
    <<"Found PNG Signature #" \o Str(n) \o " at " \o Str(off),
      "Writing PNG to pngs/ directory">>

\* eight_bytes == signature: count, read the length, read the data, make the
\* directory, write the file.
ScanMatch ==
    /\ pc = "scan" /\ i < num_bytes
    /\ \E eight_bytes \in {ReadEight} :
         /\ IsSignature(eight_bytes.out)
         /\ \E png_size_bytes \in {ReadSize(eight_bytes)} :
            \E png_data \in {ReadData(png_size_bytes)} :
            /\ binary_file' = png_data.file
            /\ count' = count + 1
            /\ LET errno == MkdirErrno(pngsKind, cwdWritable)
                   kind == IF errno = "" THEN "dir" ELSE pngsKind
               IN  IF MkdirRaises(errno)
                   THEN \* os.mkdir: raise
                        /\ pc' = "fatal" /\ exitCode' = 1 /\ error' = "PermissionError"
                        /\ stdout' = stdout \o FoundLines(count + 1, i)
                        /\ UNCHANGED <<i, files, pngsKind, wlog, madeDir>>
                   ELSE IF kind # "dir"
                   THEN \* open("pngs/<i>.png", "wb") under a name that is no directory
                        /\ pc' = "fatal" /\ exitCode' = 1 /\ error' = "NotADirectoryError"
                        /\ stdout' = stdout \o FoundLines(count + 1, i)
                        /\ UNCHANGED <<i, files, pngsKind, wlog, madeDir>>
                   ELSE /\ files' = WriteFile(files, OutPath(i), png_data.out)
                        /\ pngsKind' = kind
                        /\ madeDir' = (madeDir \/ errno = "")
                        /\ wlog' = Append(wlog, [off |-> i,
                                                 size |-> FromBytesLE(png_size_bytes.out),
                                                 data |-> png_data.out,
                                                 path |-> OutPath(i)])
                        /\ stdout' = stdout \o FoundLines(count + 1, i) \o <<"Done!">>
                        /\ i' = i + 1
                        /\ UNCHANGED <<pc, exitCode, error>>
    /\ UNCHANGED <<argv, num_bytes, cwdWritable, bufferSize, run, argv0, before, prev,
                   renameVars>>

(***************************************************************************)
(* afthumbs.py, lines 58-59: after the loop.                               *)
(***************************************************************************)
\* A variant of NoPngReport: the line is printed whatever the count.
NoPngReport_Always(n) == <<"No png signatures found?">>

\* if count==0: print('No png signatures found?')
NoPngReport(n) == IF n = 0 THEN <<"No png signatures found?">> ELSE <<>>

Finish ==
    /\ pc = "scan" /\ i = num_bytes
    /\ stdout' = stdout \o NoPngReport(count)
    /\ pc' = "done"
    /\ exitCode' = 0
    /\ UNCHANGED <<argv, num_bytes, i, count, binary_file, error, files,
                   pngsKind, cwdWritable, bufferSize, run, argv0, wlog, madeDir, before, prev, renameVars>>

(***************************************************************************)
(* The script is started again, from the same working directory with the   *)
(* same command line, after the previous run ended.                        *)
(***************************************************************************)
Terminated == pc \in {"done", "exit", "fatal"}

Rerun ==
    /\ Terminated /\ run < MaxRuns
    /\ prev' = [pc |-> pc, files |-> files, pngsKind |-> pngsKind,
                path |-> IF Len(argv) > 1 THEN argv[2] ELSE "",
                input |-> IF Len(argv) > 1 /\ argv[2] \in DOMAIN before
                          THEN before[argv[2]] ELSE <<>>]
    /\ run' = run + 1
    /\ pc' = "start"
    /\ argv' = argv0
    /\ num_bytes' = 0 /\ i' = 0 /\ count' = 0 /\ binary_file' = NoFile
    /\ stdout' = <<>> /\ exitCode' = -1 /\ error' = ""
    /\ wlog' = <<>> /\ madeDir' = FALSE /\ before' = files
    /\ UNCHANGED <<files, pngsKind, cwdWritable, bufferSize, argv0, renameVars>>

Next ==
    \/ UseArgument
    \/ Prompt
    \/ PromptEmpty
    \/ PromptName
    \/ OpenInput
    \/ ScanMismatch
    \/ ScanMatch
    \/ Finish
    \/ Rerun

Spec == Init /\ [][Next]_vars

\* The script runs to its end once started: no step of it waits on anything
\* but the prompt, which is answered.
FairSpec == Spec /\ WF_vars(Next)

(***************************************************************************)
(* rename_plans.py.  A file name is a sequence of characters; a time stamp *)
(* is the local time datetime.fromtimestamp gives for it.                  *)
(***************************************************************************)
\* Entries in the directory at the start.
MaxFiles == 2
\* Passes of the script over the directory.
MaxPasses == 2

MdExt == <<".", "m", "d">>

\* filename.endswith(suffix)
EndsWith(s, suffix) ==
    /\ Len(s) >= Len(suffix)
    /\ SubSeq(s, Len(s) - Len(suffix) + 1, Len(s)) = suffix

\* os.path.splitext(filename)[0]: the name up to its last dot, unless only
\* dots come before that dot (then the name has no extension).
SplitextRoot(name) ==
    LET dots == {k \in 1..Len(name) : name[k] = "."}
        dotIndex == IF dots = {} THEN 0 ELSE CHOOSE k \in dots : \A j \in dots : j <= k
    IN  IF dotIndex > 0 /\ \E k \in 1..(dotIndex - 1) : name[k] # "."
        THEN SubSeq(name, 1, dotIndex - 1)
        ELSE name

Upper(c) == CASE c = "p" -> "P" [] c = "l" -> "L" [] c = "a" -> "A"
              [] c = "n" -> "N" [] OTHER -> c

\* re.sub(r'^PLAN-?', '', name_no_ext, flags=re.IGNORECASE)
StripPlan(s) ==
    IF Len(s) >= 4 /\ [k \in 1..4 |-> Upper(s[k])] = <<"P", "L", "A", "N">>
    THEN IF Len(s) >= 5 /\ s[5] = "-" THEN SubSeq(s, 6, Len(s)) ELSE SubSeq(s, 5, Len(s))
    ELSE s

\* n in decimal, zero-padded to `width` digits (%Y, %m, %d, %H, %M).
RECURSIVE Dec(_, _)
Dec(n, width) ==
    IF width = 0 THEN <<>> ELSE Append(Dec(n \div 10, width - 1), Digits[(n % 10) + 1])

\* strftime('%Y-%m-%d_%H:%M')
DateStr(t) ==
    Dec(t.year, 4) \o <<"-">> \o Dec(t.month, 2) \o <<"-">> \o Dec(t.day, 2)
        \o <<"_">> \o Dec(t.hour, 2) \o <<":">> \o Dec(t.minute, 2)

\* stat.st_birthtime, or stat.st_mtime where stat results have no st_birthtime
BirthTime(file, birthtime) == IF birthtime THEN file.birth ELSE file.mtime

\* A variant of NewFilename: the date prefix is left out.
NewFilename_NoDate(filename, t) == StripPlan(SplitextRoot(filename)) \o MdExt

\* f"{date_str}-{new_name_core}.md"
NewFilename(filename, t) ==
    DateStr(t) \o <<"-">> \o StripPlan(SplitextRoot(filename)) \o MdExt

\* os.rename(filepath, new_filepath): the target name, if it exists, is replaced.
RenameEntry(dir, old, new) ==
    [n \in (DOMAIN dir \ {old}) \cup {new} |-> IF n = new THEN dir[old] ELSE dir[n]]

InitialNames ==
    { <<"P", "L", "A", "N", "-", "a", ".", "m", "d">>,
      <<"p", "l", "a", "n", "a", ".", "m", "d">>,
      <<"P", "l", "A", "n", ".", "m", "d">>,
      <<"a", ".", "m", "d">>,
      <<".", "m", "d">>,
      <<"a", ".", "b", ".", "m", "d">>,
      <<"P", "L", "A", "N", "-", "a", ".", "t", "x", "t">>,
      <<"a", ".", "M", "D">> }

Times == { [year |-> 2026, month |-> 1, day |-> 29, hour |-> 9, minute |-> 0],
           [year |-> 2026, month |-> 12, day |-> 3, hour |-> 14, minute |-> 5] }

\* The entries were last modified at the later of the two times.
LastModified == CHOOSE t \in Times : t.month = 12

InitRename ==
    /\ rpc = "list" /\ rpass = 1 /\ todo = {} /\ rlog = <<>>
    /\ hasBirthtime \in BOOLEAN
    /\ \E names \in SUBSET InitialNames :
         /\ Cardinality(names) <= MaxFiles
         /\ \E born \in [names -> Times] :
              entries = [n \in names |-> [birth |-> born[n], mtime |-> LastModified,
                                          id |-> n]]
    /\ pc = "off" /\ argv = <<>> /\ argv0 = <<>>
    /\ files = <<>> /\ pngsKind = "absent" /\ cwdWritable = TRUE
    /\ bufferSize = DEFAULT_BUFFER_SIZE
    /\ num_bytes = 0 /\ i = 0 /\ count = 0 /\ binary_file = NoFile
    /\ stdout = <<>> /\ exitCode = -1 /\ error = ""
    /\ run = 1 /\ wlog = <<>> /\ madeDir = FALSE /\ before = <<>> /\ prev = NoPrev

\* for filename in os.listdir(directory): the names are read once, in no order.
ListDir ==
    /\ rpc = "list"
    /\ todo' = DOMAIN entries
    /\ rpc' = "loop"
    /\ UNCHANGED <<entries, hasBirthtime, rlog, rpass, scanVars>>

\* if not filename.endswith(".md"): continue
NotMarkdown ==
    /\ rpc = "loop"
    /\ \E filename \in todo :
         /\ ~EndsWith(filename, MdExt)
         /\ todo' = todo \ {filename}
    /\ UNCHANGED <<rpc, entries, hasBirthtime, rlog, rpass, scanVars>>

\* lines 14-47: stat, the new name, rename or skip.
VisitMarkdown ==
    /\ rpc = "loop"
    /\ \E filename \in todo :
         /\ EndsWith(filename, MdExt)
         /\ todo' = todo \ {filename}
         /\ IF filename \notin DOMAIN entries
            THEN \* os.stat raises FileNotFoundError
                 /\ rpc' = "crashed"
                 /\ UNCHANGED <<entries, rlog>>
            ELSE LET new_filename ==
                         NewFilename(filename, BirthTime(entries[filename], hasBirthtime))
                 IN  /\ entries' = IF filename # new_filename
                                   THEN RenameEntry(entries, filename, new_filename)
                                   ELSE entries
                     /\ rlog' = Append(rlog, [pass |-> rpass, old |-> filename,
                                              new |-> new_filename,
                                              renamed |-> filename # new_filename])
                     /\ rpc' = rpc
    /\ UNCHANGED <<hasBirthtime, rpass, scanVars>>

\* print("Done.")
EndPass ==
    /\ rpc = "loop" /\ todo = {}
    /\ rpc' = "end"
    /\ UNCHANGED <<entries, todo, hasBirthtime, rlog, rpass, scanVars>>

\* The script is run again over the directory it left.
NextPass ==
    /\ rpc = "end" /\ rpass < MaxPasses
    /\ rpc' = "list"
    /\ rpass' = rpass + 1
    /\ UNCHANGED <<entries, todo, hasBirthtime, rlog, scanVars>>

NextRename ==
    \/ ListDir
    \/ NotMarkdown
    \/ VisitMarkdown
    \/ EndPass
    \/ NextPass

SpecRename == InitRename /\ [][NextRename]_vars

(***************************************************************************)
(* What the properties speak of.  These are written from the statements,   *)
(* with SubSeq and arithmetic, not with the operators of the script.       *)
(***************************************************************************)
\* The bytes of `data` at offsets [a, b).
Slice(data, a, b) == SubSeq(data, a + 1, b)

\* The offsets a substring search for the signature returns.
MatchOffsets(data) ==
    {k \in 0..(Len(data) - 1) : k + 8 <= Len(data) /\ Slice(data, k, k + 8) = PNG_MAGIC}

\* The (at most four) bytes at offsets off+8.. read as a little-endian number.
DeclaredLength(data, off) ==
    LET byte(j) == IF off + 8 + j <= Len(data) THEN data[off + 8 + j] ELSE 0
    IN  byte(1) + 256 * byte(2) + 65536 * byte(3) + 16777216 * byte(4)

\* A file name was supplied and names a file that existed when the run began.
HasInput == Len(argv) > 1 /\ argv[2] \in DOMAIN before
\* The input file as it was when the run began.
Input == before[argv[2]]
\* The paths this run wrote.
Written == {wlog[k].path : k \in 1..Len(wlog)}
\* "pngs/<offset>.png" with the offset in decimal.
PngName(off) == "pngs/" \o ToString(off) \o ".png"
\* How many times `line` was printed.
Printed(line) == Cardinality({k \in 1..Len(stdout) : stdout[k] = line})

(***************************************************************************)
(* The claims about afthumbs.py.                                           *)
(***************************************************************************)
\* The one offset of the signature in a file that holds it once.
TheOffset(data) == CHOOSE k \in MatchOffsets(data) : TRUE

\* The run ended normally on an input of the form padding + signature +
\* 4-byte length field encoding L + L bytes of payload + padding, with the
\* signature nowhere else.
C1_Form ==
    /\ pc = "done" /\ HasInput
    /\ Cardinality(MatchOffsets(Input)) = 1
    /\ TheOffset(Input) + 12 + DeclaredLength(Input, TheOffset(Input)) <= Len(Input)

\* C1, as stated: for an input of that form the scan writes exactly one file,
\* named <offset>.png, holding the signature, the 4-byte length field and all
\* L bytes of payload (L + 12 bytes).
C1_Original ==
    C1_Form =>
        LET off == TheOffset(Input)
            L == DeclaredLength(Input, off)
        IN  /\ Written = {PngName(off)}
            /\ Len(wlog) = 1
            /\ files[PngName(off)] = Slice(Input, off, off + 12 + L)

\* C1, amended: for an input of that form the scan writes exactly one file,
\* named <offset>.png, holding the L + 8 bytes from the match offset on: the
\* signature followed by the first L bytes after it (the length field's own
\* bytes are the first of these L bytes).
C1_Amended ==
    C1_Form =>
        LET off == TheOffset(Input)
            L == DeclaredLength(Input, off)
        IN  /\ Written = {PngName(off)}
            /\ Len(wlog) = 1
            /\ files[PngName(off)] = Slice(Input, off, off + 8 + L)
            /\ files[PngName(off)] = PNG_MAGIC \o Slice(Input, off + 8, off + 8 + L)

\* An input of that form with one byte of padding before the signature,
\* L = 5 and one byte of padding after the payload was scanned.
C1_Witness ==
    /\ C1_Form
    /\ TheOffset(Input) = 1
    /\ DeclaredLength(Input, 1) = 5
    /\ Len(Input) = 1 + 12 + 5 + 1
    /\ Len(files[PngName(1)]) = 13

\* C6, as stated: the process ends early with an error only when no file
\* name was supplied; with a file name it always ends at the end of the scan.
C6_Original ==
    Terminated =>
        \/ pc = "done" /\ i = num_bytes
        \/ pc = "exit" /\ Len(argv) = 1

\* How a run may end: normally, once the loop has visited every offset,
\* whatever the count; by the exit for a missing file name; or by an
\* operating-system error raised by opening the input, by creating the
\* directory or by opening the output file.
C6_Endings ==
    Terminated =>
        \/ pc = "done" /\ exitCode = 0 /\ i = num_bytes /\ Len(argv) > 1
        \/ pc = "exit" /\ exitCode = 1 /\ Len(argv) = 1
        \/ /\ pc = "fatal" /\ exitCode = 1 /\ Len(argv) > 1
           /\ \/ error = "FileNotFoundError" /\ argv[2] \notin DOMAIN files
              \/ error = "PermissionError" /\ pngsKind = "absent" /\ ~cwdWritable
              \/ error = "NotADirectoryError" /\ pngsKind = "file"

\* C6, amended: the process ends normally after the loop has visited every
\* offset, whatever the match count; it ends early with an error only if no
\* file name was supplied or the operating system refuses to open the input,
\* to create the output directory or to open an output file; and every run
\* that has a file name ends, in one of these ways.
C6_Amended ==
    /\ []C6_Endings
    /\ (pc = "open") ~> Terminated

\* A run with a file name ended early: the directory could not be created
\* at the first match.
C6_Witness ==
    /\ pc = "fatal" /\ error = "PermissionError" /\ Len(argv) > 1 /\ count = 1

\* The files a completed scan of `data` is to have written, and its count.
C2_Outputs(data) ==
    /\ Written = {PngName(k) : k \in MatchOffsets(data)}
    /\ Len(wlog) = Cardinality(MatchOffsets(data))
    /\ count = Cardinality(MatchOffsets(data))

\* C2: after a scan that ran to completion the files written are exactly
\* pngs/<k>.png for the offsets k at which the input holds the 8-byte
\* signature (the offsets a substring search returns), a window that differs
\* from the signature in one byte yields none, and the counter is the number
\* of these offsets.
C2_ExactMatches == (pc = "done" /\ HasInput) => C2_Outputs(Input)

\* The same statement for the runs that did not write over their own input
\* file: it holds for them, so C2 fails only through the overwrite of C7.
C2_InputKept ==
    (pc = "done" /\ HasInput /\ argv[2] \notin Written) => C2_Outputs(Input)

\* What C3 says of one write w: the bytes are the input's bytes in
\* [off, min(off + L + 8, n)), L the length declared in the input at off.
C3_Write(w, data) ==
    LET L == DeclaredLength(data, w.off)
        n == Len(data)
    IN  /\ w.off \in MatchOffsets(data)
        /\ w.size = L
        /\ w.data = Slice(data, w.off, Min(w.off + L + 8, n))
        /\ Len(w.data) <= n - w.off

\* C3: for every match at offset i the bytes written to pngs/<i>.png are the
\* input bytes in [i, min(i + L + 8, n)), a shorter run when i + L + 8 > n,
\* and the scan goes on without an error.
C3_ExtractedRange ==
    HasInput =>
        \A k \in 1..Len(wlog) :
            /\ C3_Write(wlog[k], Input)
            /\ pc \in {"scan", "done"} \/ k < Len(wlog)

\* The same statement for the writes made while the input file still held
\* the bytes it held when the run began.
C3_InputKept ==
    (HasInput /\ argv[2] \notin Written) =>
        \A k \in 1..Len(wlog) : C3_Write(wlog[k], Input)

\* C7: the input file is never modified by the scan, whatever its path; the
\* only effects are the creation of pngs and the writes of pngs/<offset>.png.
C7_InputUntouched ==
    HasInput =>
        /\ argv[2] \in DOMAIN files
        /\ files[argv[2]] = Input

\* C5: at a match, if creating the directory succeeds or reports that the
\* name exists, the scan goes on to write pngs/<offset>.png into an existing
\* directory; if it fails otherwise the process ends there, with no file
\* written for the match and no later offset examined.
C5_EnsureDirectory ==
    [][ (pc = "scan" /\ count' = count + 1) =>
            IF pngsKind # "absent" \/ cwdWritable
            THEN /\ pngsKind' = "dir"
                 /\ PngName(i) \in DOMAIN files'
                 /\ Len(wlog') = Len(wlog) + 1
                 /\ pc' = "scan"
            ELSE /\ pc' = "fatal"
                 /\ files' = files /\ wlog' = wlog /\ i' = i ]_vars

\* The same statement where the name pngs, if it exists, is a directory.
C5_WhenDirectory ==
    [][ (pc = "scan" /\ count' = count + 1 /\ pngsKind # "file") =>
            IF pngsKind # "absent" \/ cwdWritable
            THEN /\ pngsKind' = "dir"
                 /\ PngName(i) \in DOMAIN files'
                 /\ Len(wlog') = Len(wlog) + 1
                 /\ pc' = "scan"
            ELSE /\ pc' = "fatal"
                 /\ files' = files /\ wlog' = wlog /\ i' = i ]_vars

\* This run is a second run on the same input file, unchanged since the
\* run before it began, and that run ran to completion.
C4_SecondRun ==
    /\ run > 1 /\ prev.pc = "done"
    /\ HasInput /\ argv[2] = prev.path /\ Input = prev.input

\* C4: running the scan twice in succession on the same unchanged input from
\* the same working directory is idempotent: the second run does not fail on
\* the directory or the files that exist already, and it leaves the same
\* file names with the same contents as the first run left.
C4_Idempotent ==
    (C4_SecondRun /\ Terminated) =>
        /\ pc = "done"
        /\ pngsKind = prev.pngsKind
        /\ DOMAIN files = DOMAIN prev.files
        /\ \A p \in DOMAIN files : files[p] = prev.files[p]
        /\ Written = {PngName(k) : k \in MatchOffsets(Input)}

\* A second run has rewritten two files over the ones the first run left.
C4_Witness ==
    /\ C4_SecondRun /\ pc = "done"
    /\ Len(wlog) = 2
    /\ \A k \in 1..Len(wlog) : wlog[k].path \in DOMAIN prev.files
    /\ ~madeDir

NoPngLine == "No png signatures found?"

\* C8: the 'no PNG signatures found' message is printed if and only if the
\* completed scan found no match, once, after every offset was examined; and
\* then the scan has created no directory and written no file (a zero-length
\* input included).
C8_NoMatchReport ==
    /\ Printed(NoPngLine) <= 1
    /\ Printed(NoPngLine) = 1 <=> (pc = "done" /\ count = 0)
    /\ Printed(NoPngLine) = 1 =>
          /\ i = num_bytes
          /\ stdout[Len(stdout)] = NoPngLine
          /\ MatchOffsets(Input) = {}
          /\ wlog = <<>> /\ ~madeDir
          /\ files = before
    /\ (pc = "done" /\ HasInput /\ MatchOffsets(Input) = {} /\ files = before)
          => Printed(NoPngLine) = 1

\* The message was printed after a scan of a file that holds a window one
\* byte away from the signature.
C8_Witness ==
    /\ Printed(NoPngLine) = 1
    /\ num_bytes >= 8
    /\ \E nm \in NearMagic : Slice(Input, 0, 8) = nm

PromptLine == "Enter a Affinity filename to scan or press ENTER to skip: "

\* Nothing has been opened, created or written by this run.
C9_NothingTouched ==
    /\ files = before /\ wlog = <<>> /\ ~madeDir
    /\ binary_file = NoFile /\ num_bytes = 0
    /\ stdout = <<PromptLine>>

\* C9, the states: without a file name argument the tool prompts; on an
\* empty response it ends with a non-zero exit and a message, having opened,
\* created and written nothing; on a name it goes on with that name as
\* sys.argv[1].
C9_States ==
    /\ pc = "prompt" => Len(argv0) = 1 /\ stdout = <<PromptLine>>
    /\ pc = "exit" => /\ Len(argv0) = 1 /\ Len(argv) = 1
                      /\ exitCode # 0 /\ exitCode # -1
                      /\ error # ""
                      /\ C9_NothingTouched
    /\ (Len(argv0) = 1 /\ pc \in {"open", "scan", "done", "fatal"}) =>
            /\ Len(argv) = 2
            /\ Len(stdout) >= 2 /\ stdout[1] = PromptLine
            /\ stdout[2] = "Selecting file... " \o argv[2]

\* C9, the steps: the start without an argument prompts; the answer to the
\* prompt either ends the process or leaves the state the argument would
\* have left (the name as sys.argv[1], the open next, nothing else changed).
C9_Steps ==
    [][ /\ (pc = "start" /\ Len(argv) = 1) => pc' = "prompt"
        /\ (pc = "start" /\ Len(argv) # 1) => pc' = "open" /\ argv' = argv
        /\ pc = "prompt" =>
              \/ pc' = "exit"
              \/ /\ pc' = "open"
                 /\ Len(argv') = 2 /\ argv'[1] = argv[1] /\ argv'[2] # ""
                 /\ <<num_bytes, i, count, binary_file, exitCode, error, files,
                      pngsKind, cwdWritable, bufferSize>>' =
                    <<num_bytes, i, count, binary_file, exitCode, error, files,
                      pngsKind, cwdWritable, bufferSize>> ]_vars

\* C9: when started with no file name the tool prompts for one; an empty
\* response ends the process with a non-zero exit and a message before any
\* file is opened, any directory created or any output written; a name is
\* scanned as if it had been the command-line argument.
C9_PromptFallback == []C9_States /\ C9_Steps

\* The empty response ended a run.
C9_Witness == pc = "exit" /\ exitCode = 1 /\ Len(argv) = 1

(***************************************************************************)
(* The claim about rename_plans.py.                                        *)
(***************************************************************************)
\* The iterations of pass n.
PassLog(n) == {k \in 1..Len(rlog) : rlog[k].pass = n}

\* What C10 says of one iteration e: the entry ended in .md; the target is
\* the 16-character date, '-', the name without a leading 'PLAN'/'PLAN-' and
\* without its extension, '.md'; it is longer than the name and the entry
\* was renamed to it.
C10_Iteration(e) ==
    /\ EndsWith(e.old, MdExt) /\ EndsWith(e.new, MdExt)
    /\ Len(e.new) > Len(e.old)
    /\ e.new # e.old
    /\ e.renamed
    /\ Len(e.new) >= 20
    /\ e.new[17] = "-"
    /\ \A k \in {5, 8, 11, 14} : e.new[k] \in {"-", "_", ":"}
    /\ \E cut \in 1..6 :
          \* a name of dots before its '.md' has no extension to lose
          /\ IF \A k \in 1..(Len(e.old) - 3) : e.old[k] = "."
             THEN SubSeq(e.new, 18, Len(e.new)) = SubSeq(e.old, cut, Len(e.old)) \o MdExt
             ELSE SubSeq(e.new, 18, Len(e.new)) = SubSeq(e.old, cut, Len(e.old))
          /\ cut > 1 => [k \in 1..4 |-> Upper(e.old[k])] = <<"P", "L", "A", "N">>
          /\ cut = 6 <=> (Len(e.old) >= 5 /\ e.old[5] = "-" /\ cut > 1)
          /\ cut \in {1, 5, 6}

C10_States ==
    /\ rpc # "crashed"
    /\ \A k \in 1..Len(rlog) : C10_Iteration(rlog[k])
    \* a second pass over a name a first pass made prepends a date again
    /\ \A k \in 1..Len(rlog) :
          (\E j \in 1..(k - 1) : rlog[j].pass < rlog[k].pass /\ rlog[j].new = rlog[k].old)
              => SubSeq(rlog[k].new, 18, Len(rlog[k].new)) = rlog[k].old
    \* at the end of a pass every .md entry is the target of a rename of the pass
    /\ rpc = "end" =>
          \A n \in DOMAIN entries :
              EndsWith(n, MdExt) => \E k \in PassLog(rpass) : rlog[k].new = n
    \* the entries that do not end in .md are where they were
    /\ \A n \in DOMAIN entries : ~EndsWith(entries[n].id, MdExt) => entries[n].id = n

C10_Steps ==
    [][ \A n \in DOMAIN entries :
            ~EndsWith(n, MdExt) => n \in DOMAIN entries' /\ entries'[n] = entries[n] ]_vars

\* C10: for every entry whose name ends in .md the target name is strictly
\* longer than the name, never equal to it: every .md entry is renamed on
\* every pass, the skip branch is never taken, a second pass prepends the date
\* again, and the entries that do not end in .md are never renamed.
C10_AlwaysRenamed == []C10_States /\ C10_Steps

\* A second pass ended having renamed again what the first pass had renamed
\* from PLAN-a.md, beside an entry that does not end in .md.
C10_Witness ==
    /\ rpc = "end" /\ rpass = 2
    /\ \E j \in PassLog(1), k \in PassLog(2) :
          /\ rlog[j].old = <<"P", "L", "A", "N", "-", "a", ".", "m", "d">>
          /\ rlog[j].new = rlog[k].old
          /\ Len(rlog[k].new) = Len(rlog[j].old) + 12 + 17
    /\ \E n \in DOMAIN entries : ~EndsWith(n, MdExt)
=============================================================================
